---- MODULE Spec2Model ----
(***************************************************************************)
(* Model of ai-shell's streaming pipeline:                                 *)
(*   - readData (src/src/helpers/command-history.ts, lines 300-421): the   *)
(*     stream decoder and cancellable reader;                              *)
(*   - the isolated generation worker (src/src/helpers/ai-process.ts) and  *)
(*     its supervising side (src/src/helpers/fork-ai.ts);                  *)
(*   - the history buffer (src/src/helpers/command-history.ts, lines       *)
(*     1-45) and its formatting with trimOutput (lines 51-102);            *)
(*   - the session loop (src/src/cli.ts) and runScript with its failure    *)
(*     analysis (src/unnamed/part_001).                                    *)
(* Text is a sequence of one-character strings over a three-letter         *)
(* alphabet: "t" a backtick, "a" a letter of [a-zA-Z], "n" a newline.      *)
(***************************************************************************)
EXTENDS Naturals, Sequences, FiniteSets

\* ------------------------------------------------------------------ bounds
\* payloads the streams of one run carry in all (a chunk splits into one or
\* more of them)
MaxPayloads == 3
\* interrupt signals delivered during one run
MaxSignals == 1
\* consecutive reads of one run
MaxReads == 1
\* worker processes one run may fork
MaxWorkers == 2
\* generate requests one run may issue
MaxRequests == 2
\* chunk messages the worker may send for one request
MaxChunkMsgs == 1
\* calls of addToCommandHistory and clearCommandHistory in one run
MaxHistoryOps == 8

\* command-history.ts line 12
MAX_HISTORY_SIZE == 5

\* ------------------------------------------------------------------ text
TICK == "t"
LETTER == "a"
NEWLINE == "n"

\* the regular expressions and the literal of shellCodeExclusions, by name
FENCE_NL == "FENCE_NL"
FENCE == "FENCE"
NL == "NL"

\* const shellCodeExclusions = [/```[a-zA-Z]*\n/gi, /```[a-zA-Z]*/gi, '\n']
shellCodeExclusions == <<FENCE_NL, FENCE, NL>>

\* the exclusion lists readData is called with: none (getExplanation,
\* getCommandAnalysis) and shellCodeExclusions (getScriptAndInfo, getRevision)
ExclusionConfigs == {<<>>, shellCodeExclusions}

\* three backticks start at position i of s
FenceAt(s, i) ==
  /\ i + 2 <= Len(s)
  /\ s[i] = TICK /\ s[i + 1] = TICK /\ s[i + 2] = TICK

\* length of the longest run of letters of s starting at position i: [a-zA-Z]*
RECURSIVE LettersFrom(_, _)
LettersFrom(s, i) ==
  IF i <= Len(s) /\ s[i] = LETTER THEN 1 + LettersFrom(s, i + 1) ELSE 0

\* length of the match of pattern p at position i of s, 0 when there is none
\* (no pattern of the program matches the empty string)
MatchLen(p, s, i) ==
  IF p = FENCE
    THEN IF FenceAt(s, i) THEN 3 + LettersFrom(s, i + 3) ELSE 0
  ELSE IF p = FENCE_NL
    THEN IF FenceAt(s, i)
           THEN LET k == i + 3 + LettersFrom(s, i + 3) IN
                IF k <= Len(s) /\ s[k] = NEWLINE THEN k - i + 1 ELSE 0
           ELSE 0
  ELSE IF s[i] = NEWLINE THEN 1 ELSE 0

\* pattern p occurs in s
Occurs(p, s) == \E i \in 1..Len(s) : MatchLen(p, s, i) > 0

\* s.replaceAll(p, ''): every match removed, scanning left to right
RECURSIVE RemoveFrom(_, _, _)
RemoveFrom(p, s, i) ==
  IF i > Len(s) THEN <<>>
  ELSE LET m == MatchLen(p, s, i) IN
       IF m > 0 THEN RemoveFrom(p, s, i + m)
       ELSE <<s[i]>> \o RemoveFrom(p, s, i + 1)

replaceAll(s, p) == RemoveFrom(p, s, 1)

\* stripRegexPatterns(content, excluded): every pattern of the list removed,
\* in list order
RECURSIVE stripRegexPatterns(_, _)
stripRegexPatterns(s, patternList) ==
  IF patternList = <<>> THEN s
  ELSE stripRegexPatterns(replaceAll(s, Head(patternList)), Tail(patternList))

\* buffer.match(excludedPrefix ?? ''): the empty pattern matches any buffer
BufferMatches(buf, excl) ==
  IF excl = <<>> THEN TRUE ELSE Occurs(Head(excl), buf)

\* ------------------------------------------------------------------ payloads
\* content fragments a well-formed data payload may carry
Fragments ==
  { <<>>,
    <<LETTER>>,
    <<TICK, TICK>>,
    <<TICK, TICK, TICK, NEWLINE>>,
    <<TICK, TICK, TICK, LETTER>>,
    <<TICK, TICK, NEWLINE, TICK>> }

\* a payload: "data" a well-formed data payload carrying a fragment, "bad" a
\* data payload whose body is no JSON, "sentinel" one that includes [DONE],
\* "other" one that does not start with the data marker
Payloads ==
  [kind : {"data"}, content : Fragments]
    \cup [kind : {"bad", "sentinel", "other"}, content : {<<>>}]


\* the text of `Error with JSON.parse and ${payload}.\n${error}`: letters, a
\* newline, letters
Diagnostic == <<LETTER, NEWLINE, LETTER>>

\* a parseContent that finds no fragment in any payload
parseContentEmpty(payload) == <<>>

\* parseContent(payload)
parseContent(payload) ==
  IF payload.kind = "bad" THEN Diagnostic ELSE payload.content

\* payload.startsWith('data:')
startsWithData(payload) == payload.kind \in {"data", "bad"}

\* writer('\n\n' + yellow(i18n.t('Analysis stopped')) + '\n')
STOPPED == "STOPPED"
\* writer('\n' + yellow(i18n.t('Analysis complete')) + '\n')
COMPLETE == "COMPLETE"
\* the handler readData registers with process.on('SIGINT', ...)
ANALYSIS == "analysis"
\* interrupt handlers registered before a read
PriorHandlers == {<<>>, <<"h1">>, <<"h1", "h2">>}

\* ------------------------------------------------------------------ state
VARIABLES
  \* readData: position of the executor of the promise: "idle" before a read,
  \* "await" at `for await`, "inchunk" inside the payload loop, "returned"
  \* after it returned, "threw" after it threw, "exited" once the process ended
  pc,
  isAnalysis,            \* options?.isAnalysis
  excluded,              \* ...excluded
  stopTextStream,
  stoppedByUser,
  data,
  dataStart,
  buffer,
  originalSigintHandler, \* "none" for undefined
  sigintListeners,       \* process.listeners('SIGINT'), in order
  keypressListeners,     \* number of 'keypress' listeners on process.stdin
  promise,               \* the promise readData returns: state and value
  resolveCalls,          \* calls of resolve made by the current read
  written,               \* what the writer was passed, concatenated, also
                         \* by a call in which the writer threw
  payloadsLeft,          \* payloads the streams may still carry
  signals,               \* interrupt signals delivered so far
  reads,                 \* reads started so far
  \* history of the current read, kept for the properties
  exitPath,              \* how the executor ended
  matchSeen,             \* the payloads of the read so far: text, the
                         \* fragments parsed up to the first match; hit,
                         \* the first pattern has matched them; frames, the
                         \* data payloads parsed up to the first match (2 for
                         \* more); after, the stripped fragments of the
                         \* well-formed data payloads that arrived once
                         \* emission was due; bad, a payload failed to parse;
                         \* skipped, a payload was never looked at
  parsedNonEmpty,        \* a non-empty fragment has been parsed
  dataAtStop,            \* data when a stop key first set the flag
  dataAtInt,             \* data when the analysis handler first ran
  sigintBefore           \* the SIGINT listeners before the read

readVars ==
  <<pc, isAnalysis, excluded, stopTextStream, stoppedByUser, data, dataStart,
    buffer, originalSigintHandler, sigintListeners, keypressListeners, promise,
    resolveCalls, written, payloadsLeft, signals, reads, exitPath,
    matchSeen, parsedNonEmpty, dataAtStop, dataAtInt, sigintBefore>>

\* the supervising side (fork-ai.ts), the worker (ai-process.ts) and the
\* message channel between them
VARIABLES
  aiProcess,   \* the module-scoped handle: 0 for null, else a worker
  spawned,     \* workers forked so far; worker w is the w-th fork
  proc,        \* per worker: the process and its ChildProcess object
  toParent,    \* per worker: messages sent with process.send, not yet delivered
  toWorker,    \* per worker: generate messages sent to it, not yet delivered
  req,         \* per request: the call of generateCompletionWithFork, its
               \* response object and the read of that response
  job,         \* per request: the worker's message handler serving it
  issued,      \* requests issued so far; request r is the r-th call
  mainExited   \* the supervising process has exited

forkVars ==
  <<aiProcess, spawned, proc, toParent, toWorker, req, job, issued, mainExited>>

\* the history buffer (command-history.ts lines 12-45)
VARIABLES
  commandHistory,  \* the module-scoped array, most recent first
  inserted,        \* the results added since the buffer was last empty by
                   \* construction or by a clear, in order of insertion
  historyOps       \* calls made so far

histVars == <<commandHistory, inserted, historyOps>>

\* the formatting of the history for the model (command-history.ts lines
\* 50-102)
VARIABLES
  stdout,          \* result.stdout of the entry being formatted, as lines
  trimmedStdout    \* what trimOutput returned for it, as lines

\* the session loop (cli.ts lines 29-48) and prompt (part_001 lines 182-234)
VARIABLES
  sessionPc,       \* "start" before the callback runs, "top" at the head of
                   \* the while loop, "input" inside getPrompt, "generating"
                   \* inside getScriptAndInfo, "flow" after it, "exited"
  promptText,      \* the local of the cli callback; "" for the empty string
  thePrompt,       \* the local of prompt
  submitted,       \* the generation requests made so far: the prompt, whether
                   \* the user typed it for this request, whether it failed
  reported         \* errors reported by the catch block of the loop

\* runScript and analyzeFailedCommand (part_001 lines 45-133)
VARIABLES
  runPc,           \* "idle" outside runScript, "executing" at the await of
                   \* execaCommand, "analyzing" inside analyzeFailedCommand
  script,          \* the argument of the current call of runScript
  credentials,     \* key && apiEndpoint of the current call
  executed,        \* the results execaCommand has returned, in order
  analysisHistory, \* what formatCommandHistoryForAI returned at line 114
  runs             \* calls of runScript so far

runVars == <<runPc, script, credentials, executed, analysisHistory, runs>>

shellVars ==
  <<stdout, trimmedStdout, sessionPc, promptText, thePrompt, submitted,
    reported, runVars>>

vars == <<readVars, forkVars, histVars, shellVars>>

Unset == [set |-> FALSE, value |-> <<>>]
At(v) == [set |-> TRUE, value |-> v]

Pending == [state |-> "pending", value |-> <<>>]

\* resolve(v): the first call settles the promise, later calls do nothing
resolve(p, v) ==
  IF p.state = "pending" THEN [state |-> "resolved", value |-> v] ELSE p

\* const stopTextStreamKeys = ['q', 'escape']
stopTextStreamKeys == {"q", "escape"}
Keys == {"q", "escape", "x"}

Workers == 1..MaxWorkers
Requests == 1..MaxRequests

NoProc == [state |-> "none", killed |-> FALSE, booted |-> FALSE,
           code |-> "none", exitSeen |-> FALSE]
NoReq == [st |-> "none", proc |-> 0, forked |-> 0, timer |-> FALSE,
          readySeen |-> FALSE, listening |-> FALSE, events |-> <<>>,
          read |-> "none", stop |-> FALSE, termRecv |-> FALSE,
          timedOut |-> FALSE]
NoJob == [pc |-> "none", worker |-> 0, chunks |-> 0, sent |-> <<>>]

\* no payload of the read has arrived yet
NothingSeen ==
  [text |-> <<>>, hit |-> FALSE, frames |-> 0, after |-> <<>>,
   bad |-> FALSE, skipped |-> FALSE]

\* lines 22: let aiProcess = null; nothing forked, nothing requested
ForkIdle ==
  /\ aiProcess = 0
  /\ spawned = 0
  /\ proc = [w \in Workers |-> NoProc]
  /\ toParent = [w \in Workers |-> <<>>]
  /\ toWorker = [w \in Workers |-> <<>>]
  /\ req = [r \in Requests |-> NoReq]
  /\ job = [r \in Requests |-> NoJob]
  /\ issued = 0
  /\ mainExited = FALSE
  /\ commandHistory = <<>>
  /\ inserted = <<>>
  /\ historyOps = 0

\* analyzeFailedCommand has not formatted the history
NotFormatted == [set |-> FALSE, value |-> [text |-> "", blocks |-> <<>>]]

\* nothing captured, nothing formatted
ShellIdle ==
  /\ stdout = <<>>
  /\ trimmedStdout = Unset
  /\ sessionPc = "start"
  /\ promptText = ""
  /\ thePrompt = ""
  /\ submitted = <<>>
  /\ reported = 0
  /\ runPc = "idle"
  /\ script = ""
  /\ credentials = FALSE
  /\ executed = <<>>
  /\ analysisHistory = NotFormatted
  /\ runs = 0

\* ------------------------------------------------------------------ readData
ReadInit ==
  /\ pc = "idle"
  /\ isAnalysis = FALSE
  /\ excluded = <<>>
  /\ stopTextStream = FALSE
  /\ stoppedByUser = FALSE
  /\ data = <<>>
  /\ dataStart = FALSE
  /\ buffer = <<>>
  /\ originalSigintHandler = "none"
  /\ sigintListeners \in PriorHandlers
  /\ keypressListeners = 0
  /\ promise = Pending
  /\ resolveCalls = 0
  /\ written = <<>>
  /\ payloadsLeft = MaxPayloads
  /\ signals = 0
  /\ reads = 0
  /\ exitPath = "none"
  /\ matchSeen = NothingSeen
  /\ parsedNonEmpty = FALSE
  /\ dataAtStop = Unset
  /\ dataAtInt = Unset
  /\ sigintBefore = sigintListeners
  /\ ForkIdle
  /\ ShellIdle

\* lines 307-350: the locals, the analysis SIGINT handler, the keypress listener
StartRead(analysis, excl) ==
  /\ pc \in {"idle", "returned"}
  /\ reads < MaxReads
  /\ reads' = reads + 1
  /\ isAnalysis' = analysis
  /\ excluded' = excl
  /\ stopTextStream' = FALSE
  /\ stoppedByUser' = FALSE
  /\ data' = <<>>
  /\ dataStart' = FALSE
  /\ buffer' = <<>>
  /\ originalSigintHandler' =
       IF analysis /\ Len(sigintListeners) > 0
         THEN sigintListeners[Len(sigintListeners)]
         ELSE "none"
  /\ sigintListeners' =
       IF analysis THEN <<ANALYSIS>> ELSE sigintListeners
  /\ keypressListeners' = keypressListeners + 1
  /\ promise' = Pending
  /\ resolveCalls' = 0
  /\ written' = <<>>
  /\ exitPath' = "none"
  /\ matchSeen' = NothingSeen
  /\ parsedNonEmpty' = FALSE
  /\ dataAtStop' = Unset
  /\ dataAtInt' = Unset
  /\ sigintBefore' = sigintListeners
  /\ pc' = "await"
  /\ UNCHANGED <<signals, payloadsLeft>>

\* lines 355-363: the SIGINT listeners cleanup() leaves
cleanup ==
  IF isAnalysis
    THEN IF originalSigintHandler # "none"
           THEN <<originalSigintHandler>>
           ELSE <<>>
    ELSE sigintListeners

\* a stop check that looks at the sentinel alone
stopRequestedSentinelOnly(payload) == payload.kind = "sentinel"

\* line 368: payload.includes('[DONE]') || stopTextStream
stopRequested(payload) == payload.kind = "sentinel" \/ stopTextStream

\* a start detection that does not wait for the first pattern
startDetectedAtOnce(buf) == TRUE

\* line 387: buffer.match(excludedPrefix ?? '')
startDetected(buf) == BufferMatches(buf, excluded)

\* an analysis handler that rejects instead of resolving
sigintRejects ==
  IF promise.state = "pending"
    THEN [state |-> "rejected", value |-> <<>>]
    ELSE promise

\* line 342: resolve(data) in the analysis SIGINT handler
sigintSettles == resolve(promise, data)

\* line 365: the stream yields its next chunk
NextChunk ==
  /\ pc = "await"
  /\ payloadsLeft > 0
  /\ pc' = "inchunk"
  /\ UNCHANGED <<payloadsLeft, isAnalysis, excluded, stopTextStream, stoppedByUser, data,
                 dataStart, buffer, originalSigintHandler, sigintListeners,
                 keypressListeners, promise, resolveCalls, written, signals,
                 reads, exitPath, matchSeen, parsedNonEmpty, dataAtStop,
                 dataAtInt, sigintBefore>>

\* lines 365, 418-420: the stream is exhausted: cleanup(); resolve(data)
StreamEnd ==
  /\ pc = "await"
  /\ sigintListeners' = cleanup
  /\ promise' = resolve(promise, data)
  /\ resolveCalls' = resolveCalls + 1
  /\ exitPath' = "exhausted"
  /\ pc' = "returned"
  /\ UNCHANGED <<isAnalysis, excluded, stopTextStream, stoppedByUser, data,
                 dataStart, buffer, originalSigintHandler, keypressListeners,
                 written, payloadsLeft, signals, reads, matchSeen,
                 parsedNonEmpty, dataAtStop, dataAtInt, sigintBefore>>

\* line 365: the stream raises an error: the async executor throws, nothing
\* after the loop runs and resolve is not called
StreamThrows ==
  /\ pc = "await"
  /\ exitPath' = "streamError"
  /\ pc' = "threw"
  /\ UNCHANGED <<isAnalysis, excluded, stopTextStream, stoppedByUser, data,
                 dataStart, buffer, originalSigintHandler, sigintListeners,
                 keypressListeners, promise, resolveCalls, written, payloadsLeft, signals, reads, matchSeen, parsedNonEmpty,
                 dataAtStop, dataAtInt, sigintBefore>>

\* lines 381-403 for one payload that is not a stop: the new buffer and
\* dataStart, whether the payload loop is left by `break`, and the text to
\* emit (<<>> for none)
decode(payload) ==
  IF ~startsWithData(payload)
    THEN [buffer |-> buffer, dataStart |-> dataStart, broke |-> FALSE,
          content |-> <<>>, out |-> <<>>, emit |-> FALSE]
    ELSE
      LET content == parseContent(payload)
          buf1 == IF ~dataStart THEN buffer \o content ELSE buffer
          hit == ~dataStart /\ startDetected(buf1)
          broke == hit /\ excluded # <<>>
          ds1 == dataStart \/ hit
      IN  [buffer |-> IF hit THEN <<>> ELSE buf1,
           dataStart |-> ds1,
           broke |-> broke,
           content |-> content,
           out |-> stripRegexPatterns(content, excluded),
           emit |-> ~broke /\ ds1 /\ content # <<>>]

\* a reader that writes the fragment as it was parsed
toWriterUnstripped(d) == d.content

\* line 402: writer(contentWithoutExcluded): what the writer is passed for
\* the decoded payload d
toWriter(d) == d.out

\* the empty payload that ends a chunk after its last separator
NoPayload == [kind |-> "other", content |-> <<>>]

\* what a well-formed data payload is due to add to the output: its fragment
\* with every pattern removed; any other payload is due to add nothing
due(payload) ==
  IF payload.kind = "data"
    THEN stripRegexPatterns(payload.content, excluded)
    ELSE <<>>

\* the history of the read after `payload` was decoded; with `skip`, the
\* payload `rest` followed it in the same chunk and the loop was left by
\* `break` before it
seen(payload, skip, rest) ==
  LET parsed == startsWithData(payload) /\ ~matchSeen.hit
      text == IF parsed THEN matchSeen.text \o parseContent(payload)
                        ELSE matchSeen.text
      hit == IF parsed THEN BufferMatches(text, excluded) ELSE matchSeen.hit
      own == IF excluded = <<>> \/ matchSeen.hit THEN due(payload) ELSE <<>>
  IN  [text |-> text,
       hit |-> hit,
       frames |-> IF parsed /\ matchSeen.frames < 2
                    THEN matchSeen.frames + 1 ELSE matchSeen.frames,
       after |-> matchSeen.after \o own \o (IF skip THEN due(rest) ELSE <<>>),
       bad |-> matchSeen.bad \/ payload.kind = "bad",
       skipped |-> matchSeen.skipped \/ skip]

\* an exit path without the return of line 378: the payload loop goes on
FinishGoesOn(payload) ==
  /\ pc = "inchunk"
  /\ stopRequested(payload)
  /\ dataStart' = FALSE
  /\ sigintListeners' = cleanup
  /\ written' = IF stoppedByUser THEN Append(written, COMPLETE) ELSE written
  /\ promise' = resolve(promise, data)
  /\ resolveCalls' = resolveCalls + 1
  /\ exitPath' = IF stopTextStream THEN "stop" ELSE "sentinel"
  /\ pc' = "inchunk"
  /\ UNCHANGED <<isAnalysis, excluded, stopTextStream, stoppedByUser, data,
                 buffer, originalSigintHandler, keypressListeners, payloadsLeft, signals, reads, matchSeen, parsedNonEmpty,
                 dataAtStop, dataAtInt, sigintBefore>>

\* lines 368-379: a sentinel payload or a stop request ends the read
Finish(payload) ==
  /\ pc = "inchunk"
  /\ stopRequested(payload)
  /\ dataStart' = FALSE
  /\ sigintListeners' = cleanup
  /\ written' = IF stoppedByUser THEN Append(written, COMPLETE) ELSE written
  /\ promise' = resolve(promise, data)
  /\ resolveCalls' = resolveCalls + 1
  /\ exitPath' = IF stopTextStream THEN "stop" ELSE "sentinel"
  /\ pc' = "returned"
  /\ UNCHANGED <<isAnalysis, excluded, stopTextStream, stoppedByUser, data,
                 buffer, originalSigintHandler, keypressListeners, payloadsLeft, signals, reads, matchSeen, parsedNonEmpty,
                 dataAtStop, dataAtInt, sigintBefore>>

\* lines 368-374: the writer throws on the 'Analysis complete' message, after
\* cleanup() and before resolve(data)
FinishWriterThrows(payload) ==
  /\ pc = "inchunk"
  /\ stopRequested(payload)
  /\ stoppedByUser
  /\ dataStart' = FALSE
  /\ sigintListeners' = cleanup
  /\ written' = Append(written, COMPLETE)
  /\ exitPath' = "writerError"
  /\ pc' = "threw"
  /\ UNCHANGED <<isAnalysis, excluded, stopTextStream, stoppedByUser, data,
                 buffer, originalSigintHandler, keypressListeners, promise,
                 resolveCalls, payloadsLeft, signals, reads,
                 matchSeen, parsedNonEmpty, dataAtStop, dataAtInt,
                 sigintBefore>>

\* the payloads that may follow `payload` in its chunk unseen: any, when the
\* loop is left by `break` before the end of the chunk
Following(payload, last) ==
  IF ~last /\ decode(payload).broke THEN Payloads ELSE {NoPayload}

\* lines 381-405: one payload that is not a stop is decoded; `last` says
\* that it is the last payload of its chunk, and `rest` is the payload that
\* follows it in the chunk when the loop is left by `break` (line 391)
DecodePayload(payload, last, rest) ==
  /\ pc = "inchunk"
  /\ ~stopRequested(payload)
  /\ last \/ payloadsLeft > 1
  /\ LET d == decode(payload)
         skip == d.broke /\ ~last
     IN  /\ skip \/ rest = NoPayload
         /\ payloadsLeft' = IF skip THEN payloadsLeft - 2 ELSE payloadsLeft - 1
         /\ buffer' = d.buffer
         /\ dataStart' = d.dataStart
         /\ data' = IF d.emit THEN data \o d.out ELSE data
         /\ written' = IF d.emit THEN written \o toWriter(d) ELSE written
         /\ pc' = IF last \/ d.broke THEN "await" ELSE "inchunk"
         /\ matchSeen' = seen(payload, skip, rest)
         /\ parsedNonEmpty' =
              (parsedNonEmpty
                 \/ (startsWithData(payload) /\ parseContent(payload) # <<>>))
  /\ UNCHANGED <<isAnalysis, excluded, stopTextStream, stoppedByUser,
                 originalSigintHandler, sigintListeners, keypressListeners,
                 promise, resolveCalls, signals, reads, exitPath,
                 dataAtStop, dataAtInt, sigintBefore>>

\* lines 401-402: the writer throws on a fragment, after data += ...
DecodeWriterThrows(payload) ==
  /\ pc = "inchunk"
  /\ ~stopRequested(payload)
  /\ LET d == decode(payload)
     IN  /\ d.emit
         /\ buffer' = d.buffer
         /\ dataStart' = d.dataStart
         /\ data' = data \o d.out
         /\ written' = written \o toWriter(d)
         /\ matchSeen' = seen(payload, FALSE, NoPayload)
         /\ parsedNonEmpty' = TRUE
  /\ exitPath' = "writerError"
  /\ pc' = "threw"
  /\ UNCHANGED <<isAnalysis, excluded, stopTextStream, stoppedByUser,
                 originalSigintHandler, sigintListeners, keypressListeners,
                 promise, resolveCalls, payloadsLeft, signals,
                 reads, dataAtStop, dataAtInt, sigintBefore>>

\* lines 346-350: a key is pressed while the read awaits the stream
Keypress(key) ==
  /\ pc = "await"
  /\ key \in stopTextStreamKeys
  /\ stopTextStream' = TRUE
  /\ dataAtStop' = IF dataAtStop.set THEN dataAtStop ELSE At(data)
  /\ UNCHANGED <<pc, isAnalysis, excluded, stoppedByUser, data, dataStart,
                 buffer, originalSigintHandler, sigintListeners,
                 keypressListeners, promise, resolveCalls, written, payloadsLeft, signals, reads, exitPath, matchSeen,
                 parsedNonEmpty, dataAtInt, sigintBefore>>

\* an interrupt signal can be delivered between two turns of the event loop
SignalPoint == pc \in {"await", "returned", "threw"}

\* lines 334-343: SIGINT with the analysis handler registered; the other
\* registered handlers are the caller's and do not touch the read
Sigint ==
  /\ SignalPoint
  /\ signals < MaxSignals
  /\ signals' = signals + 1
  /\ ANALYSIS \in {sigintListeners[i] : i \in 1..Len(sigintListeners)}
  /\ stoppedByUser' = TRUE
  /\ stopTextStream' = TRUE
  /\ written' = Append(written, STOPPED)
  /\ promise' = sigintSettles
  /\ resolveCalls' = resolveCalls + 1
  /\ dataAtInt' = IF dataAtInt.set THEN dataAtInt ELSE At(data)
  /\ UNCHANGED <<pc, isAnalysis, excluded, data, dataStart, buffer,
                 originalSigintHandler, sigintListeners, keypressListeners,
                 payloadsLeft, reads, exitPath, matchSeen,
                 parsedNonEmpty, dataAtStop, sigintBefore>>

\* lines 335-339: the writer throws inside the analysis handler: the flags are
\* set, resolve is not reached and the uncaught exception ends the process
SigintWriterThrows ==
  /\ SignalPoint
  /\ signals < MaxSignals
  /\ signals' = signals + 1
  /\ ANALYSIS \in {sigintListeners[i] : i \in 1..Len(sigintListeners)}
  /\ stoppedByUser' = TRUE
  /\ stopTextStream' = TRUE
  /\ written' = Append(written, STOPPED)
  /\ pc' = "exited"
  /\ UNCHANGED <<isAnalysis, excluded, data, dataStart, buffer,
                 originalSigintHandler, sigintListeners, keypressListeners,
                 promise, resolveCalls, payloadsLeft, reads,
                 exitPath, matchSeen, parsedNonEmpty, dataAtStop, dataAtInt,
                 sigintBefore>>

\* SIGINT while the analysis handler is not registered: the caller's handlers
\* run; with none registered the signal ends the process
SigintOther ==
  /\ SignalPoint
  /\ ANALYSIS \notin {sigintListeners[i] : i \in 1..Len(sigintListeners)}
  /\ pc' = IF sigintListeners = <<>> THEN "exited" ELSE pc
  /\ UNCHANGED <<isAnalysis, excluded, stopTextStream, stoppedByUser, data,
                 dataStart, buffer, originalSigintHandler, sigintListeners,
                 keypressListeners, promise, resolveCalls, written,
                 payloadsLeft, signals, reads, exitPath, matchSeen,
                 parsedNonEmpty, dataAtStop, dataAtInt, sigintBefore>>

ReadNext ==
  \/ \E analysis \in BOOLEAN, excl \in ExclusionConfigs :
       StartRead(analysis, excl) /\ UNCHANGED <<forkVars, histVars, shellVars>>
  \/ NextChunk /\ UNCHANGED <<forkVars, histVars, shellVars>>
  \/ StreamEnd /\ UNCHANGED <<forkVars, histVars, shellVars>>
  \/ StreamThrows /\ UNCHANGED <<forkVars, histVars, shellVars>>
  \/ \E payload \in Payloads : Finish(payload) /\ UNCHANGED <<forkVars, histVars, shellVars>>
  \/ \E payload \in Payloads :
       FinishWriterThrows(payload) /\ UNCHANGED <<forkVars, histVars, shellVars>>
  \/ \E payload \in Payloads, last \in BOOLEAN :
       \E rest \in Following(payload, last) :
         DecodePayload(payload, last, rest) /\ UNCHANGED <<forkVars, histVars, shellVars>>
  \/ \E payload \in Payloads :
       DecodeWriterThrows(payload) /\ UNCHANGED <<forkVars, histVars, shellVars>>
  \/ \E key \in Keys : Keypress(key) /\ UNCHANGED <<forkVars, histVars, shellVars>>
  \/ Sigint /\ UNCHANGED <<forkVars, histVars, shellVars>>
  \/ SigintWriterThrows /\ UNCHANGED <<forkVars, histVars, shellVars>>
  \/ SigintOther /\ UNCHANGED <<forkVars, histVars, shellVars>>

SpecRead == ReadInit /\ [][ReadNext]_vars

\* ------------------------------------------------------------------
\* fork-ai.ts: the supervising side

\* ai-process.ts lines 66-74: the fields of the error object of an error
\* message
ErrorFields == {"message", "stack", "name", "code"}

Msg(type, for, sentinel) ==
  [type |-> type, for |-> for, sentinel |-> sentinel,
   error |-> IF type = "error" THEN ErrorFields ELSE {}]

\* an ensureAiProcess that never takes the reuse path
reusableNever == FALSE

\* fork-ai.ts line 27: aiProcess && !aiProcess.killed
reusable == aiProcess # 0 /\ ~proc[aiProcess].killed

\* the interactive flow awaits one read at a time: the next request is made
\* once the read of the latest one has resolved or has failed
FlowFree ==
  IF issued = 0 THEN TRUE ELSE req[issued].read \in {"resolved", "threw"}

\* fork-ai.ts lines 136-182: with the handle h that ensureAiProcess gave, the
\* listeners are attached, generate is sent and the response is returned to
\* the caller, who starts to read it
attached(q, h) ==
  [q EXCEPT !.st = "sent", !.proc = h, !.listening = TRUE, !.read = "reading"]

\* fork-ai.ts lines 183-194: the catch branch; the error is emitted later
failed(q) == [q EXCEPT !.st = "failed", !.read = "reading"]

\* process.send({type: 'generate', ...}): a process that has exited receives
\* nothing
sendGenerate(r, h) ==
  [toWorker EXCEPT ![h] = IF proc[h].state = "running" THEN Append(@, r) ELSE @]

\* fork-ai.ts lines 27-30, 125-182: generateCompletionWithFork with a live
\* handle: ensureAiProcess resolves with it at once
GenerateReuse ==
  /\ issued < MaxRequests
  /\ FlowFree
  /\ reusable
  /\ issued' = issued + 1
  /\ req' = [req EXCEPT ![issued + 1] = attached(@, aiProcess)]
  /\ toWorker' = sendGenerate(issued + 1, aiProcess)
  /\ UNCHANGED <<aiProcess, spawned, proc, toParent, job>>

\* fork-ai.ts lines 32-91: generateCompletionWithFork without a live handle:
\* ensureAiProcess forks a worker, stores it in aiProcess and waits for ready
GenerateFork ==
  /\ issued < MaxRequests
  /\ FlowFree
  /\ ~reusable
  /\ spawned < MaxWorkers
  /\ issued' = issued + 1
  /\ spawned' = spawned + 1
  /\ aiProcess' = spawned + 1
  /\ proc' = [proc EXCEPT ![spawned + 1] = [NoProc EXCEPT !.state = "running"]]
  /\ req' = [req EXCEPT ![issued + 1] =
               [@ EXCEPT !.st = "ensuring", !.forked = spawned + 1,
                         !.timer = TRUE]]
  /\ UNCHANGED <<toParent, toWorker, job>>

\* the read of a response reacts to a data event: readData lines 365-379
onData(q, sentinel) ==
  [q EXCEPT !.events = Append(@, "data"),
            !.read = IF @ = "reading" /\ (q.stop \/ sentinel)
                       THEN "resolved" ELSE @]

\* the read of a response reacts to the end event: readData lines 418-420
onEnd(q) ==
  [q EXCEPT !.events = Append(@, "end"),
            !.read = IF @ = "reading" THEN "resolved" ELSE @]

\* the read of a response reacts to an error event: `for await` throws
onError(q) ==
  [q EXCEPT !.events = Append(@, "error"),
            !.read = IF @ = "reading" THEN "threw" ELSE @]

\* fork-ai.ts lines 68-76, 89-91 and the continuation of line 125: the
\* listeners ensureAiProcess put on the worker it forked, for the call q that
\* still waits; resolve(aiProcess!) reads the module variable when ready
\* arrives, and a null handle throws at line 136
ensureListener(q, m) ==
  IF m.type = "ready"
    THEN IF aiProcess = 0
           THEN [failed(q) EXCEPT !.timer = FALSE, !.readySeen = TRUE]
           ELSE [attached(q, aiProcess) EXCEPT !.timer = FALSE,
                                               !.readySeen = TRUE]
  ELSE IF m.type = "error"
    THEN [failed(q) EXCEPT !.timer = FALSE]
  ELSE [q EXCEPT !.timer = FALSE]

\* fork-ai.ts lines 150-171: messageHandler of the call q
messageHandler(q, m) ==
  IF m.type = "chunk" THEN onData(q, m.sentinel)
  ELSE IF m.type = "done" THEN [onEnd(q) EXCEPT !.listening = FALSE]
  ELSE IF m.type = "error" THEN [onError(q) EXCEPT !.listening = FALSE]
  ELSE q

\* the supervising side receives the oldest message of worker w: every
\* 'message' listener on that worker runs
Deliver(w) ==
  /\ toParent[w] # <<>>
  /\ LET m == Head(toParent[w])
         waits(r) == req[r].st = "ensuring" /\ req[r].forked = w
         handed == \E r \in Requests :
                     waits(r) /\ m.type = "ready" /\ aiProcess # 0
         noted(q, r) ==
           IF r \in m.for /\ m.type \in {"done", "error"}
             THEN [q EXCEPT !.termRecv = TRUE] ELSE q
     IN  /\ req' = [r \in Requests |->
                      noted(IF waits(r) THEN ensureListener(req[r], m)
                            ELSE IF req[r].listening /\ req[r].proc = w
                              THEN messageHandler(req[r], m)
                            ELSE req[r], r)]
         /\ toWorker' = IF handed
                          THEN sendGenerate(CHOOSE r \in Requests : waits(r),
                                            aiProcess)
                          ELSE toWorker
  /\ toParent' = [toParent EXCEPT ![w] = Tail(@)]
  /\ UNCHANGED <<aiProcess, spawned, proc, job, issued>>

\* aiProcess.kill('SIGKILL') (fork-ai.ts lines 83, 99): the signal is sent and
\* the handle is marked killed; a worker that runs ends without an exit code,
\* one that has ended already keeps the code it ended with
SIGKILL(p) ==
  IF p.state = "running"
    THEN [p EXCEPT !.killed = TRUE, !.state = "exited", !.code = "null"]
    ELSE [p EXCEPT !.killed = TRUE]

\* fork-ai.ts lines 79-86: no message came from the forked worker in time
Timeout(r) ==
  /\ req[r].st = "ensuring"
  /\ req[r].timer
  /\ proc' = IF reusable
               THEN [proc EXCEPT ![aiProcess] = SIGKILL(@)]
               ELSE proc
  /\ req' = [req EXCEPT ![r] = [failed(@) EXCEPT !.timer = FALSE,
                                                 !.timedOut = TRUE]]
  /\ UNCHANGED <<aiProcess, spawned, toParent, toWorker, job, issued>>

\* fork-ai.ts lines 96-102: killAiProcess
killAiProcess ==
  /\ reusable
  /\ proc' = [proc EXCEPT ![aiProcess] = SIGKILL(@)]
  /\ aiProcess' = 0
  /\ UNCHANGED <<spawned, toParent, toWorker, req, job, issued>>

\* fork-ai.ts lines 42-45, 176-180: the exit event of worker w reaches the
\* supervising side: the listener of ensureAiProcess clears the module handle,
\* and the listener of every call that used w reports a non-zero code
ExitEvent(w) ==
  /\ proc[w].state = "exited"
  /\ ~proc[w].exitSeen
  /\ proc' = [proc EXCEPT ![w] = [@ EXCEPT !.exitSeen = TRUE]]
  /\ aiProcess' = 0
  /\ req' = [r \in Requests |->
               IF req[r].st = "sent" /\ req[r].proc = w /\ proc[w].code # "0"
                 THEN onError(req[r]) ELSE req[r]]
  /\ UNCHANGED <<spawned, toParent, toWorker, job, issued>>

\* fork-ai.ts lines 189-192: setTimeout(() => mockResponse.emit('error', error))
EmitFailure(r) ==
  /\ req[r].st = "failed"
  /\ req[r].events = <<>>
  /\ req' = [req EXCEPT ![r] = onError(@)]
  /\ UNCHANGED <<aiProcess, spawned, proc, toParent, toWorker, job, issued>>

\* command-history.ts lines 346-350: a stop key during the read of response r
StopKey(r) ==
  /\ req[r].read = "reading"
  /\ ~req[r].stop
  /\ req' = [req EXCEPT ![r] = [@ EXCEPT !.stop = TRUE]]
  /\ UNCHANGED <<aiProcess, spawned, proc, toParent, toWorker, job, issued>>

\* ------------------------------------------------------------------
\* ai-process.ts: the worker

send(w, m) == [toParent EXCEPT ![w] = Append(@, m)]

\* ai-process.ts lines 9-12, 102-107: the worker has loaded, registered its
\* listeners and sends ready
WorkerBoot(w) ==
  /\ proc[w].state = "running"
  /\ ~proc[w].booted
  /\ proc' = [proc EXCEPT ![w] = [@ EXCEPT !.booted = TRUE]]
  /\ toParent' = send(w, Msg("ready", {}, FALSE))
  /\ UNCHANGED <<aiProcess, spawned, toWorker, req, job, issued>>

\* ai-process.ts lines 12-32: a generate message arrives and its handler runs
\* up to `await generateCompletion`
WorkerReceive(w) ==
  /\ proc[w].state = "running"
  /\ proc[w].booted
  /\ toWorker[w] # <<>>
  /\ job' = [job EXCEPT ![Head(toWorker[w])] =
               [@ EXCEPT !.pc = "call", !.worker = w]]
  /\ toWorker' = [toWorker EXCEPT ![w] = Tail(@)]
  /\ UNCHANGED <<aiProcess, spawned, proc, toParent, req, issued>>

Running(r) == job[r].worker # 0 /\ proc[job[r].worker].state = "running"

\* ai-process.ts lines 32-43: generateCompletion returned a stream
WorkerCallOk(r) ==
  /\ Running(r)
  /\ job[r].pc = "call"
  /\ job' = [job EXCEPT ![r] = [@ EXCEPT !.pc = "stream"]]
  /\ UNCHANGED <<aiProcess, spawned, proc, toParent, toWorker, req, issued>>

\* a handler that reports the failure of the call and ends the process
WorkerCallFailsExits(r) ==
  /\ Running(r)
  /\ job[r].pc = "call"
  /\ job' = [job EXCEPT ![r] =
               [@ EXCEPT !.pc = "finished", !.sent = Append(@, "error")]]
  /\ toParent' = send(job[r].worker, Msg("error", {r}, FALSE))
  /\ proc' = [proc EXCEPT ![job[r].worker] =
                [@ EXCEPT !.state = "exited", !.code = "1"]]
  /\ UNCHANGED <<aiProcess, spawned, toWorker, req, issued>>

\* ai-process.ts lines 32, 62-75: generateCompletion threw
WorkerCallFails(r) ==
  /\ Running(r)
  /\ job[r].pc = "call"
  /\ job' = [job EXCEPT ![r] =
               [@ EXCEPT !.pc = "finished", !.sent = Append(@, "error")]]
  /\ toParent' = send(job[r].worker, Msg("error", {r}, FALSE))
  /\ UNCHANGED <<aiProcess, spawned, proc, toWorker, req, issued>>

\* ai-process.ts lines 48-54: one chunk of the stream is sent
WorkerChunk(r, sentinel) ==
  /\ Running(r)
  /\ job[r].pc = "stream"
  /\ job[r].chunks < MaxChunkMsgs
  /\ job' = [job EXCEPT ![r] =
               [@ EXCEPT !.chunks = @ + 1, !.sent = Append(@, "chunk")]]
  /\ toParent' = send(job[r].worker, Msg("chunk", {r}, sentinel))
  /\ UNCHANGED <<aiProcess, spawned, proc, toWorker, req, issued>>

\* ai-process.ts lines 56-61: the stream ended
WorkerStreamEnd(r) ==
  /\ Running(r)
  /\ job[r].pc = "stream"
  /\ job' = [job EXCEPT ![r] =
               [@ EXCEPT !.pc = "finished", !.sent = Append(@, "done")]]
  /\ toParent' = send(job[r].worker, Msg("done", {r}, FALSE))
  /\ UNCHANGED <<aiProcess, spawned, proc, toWorker, req, issued>>

\* a handler that reports the error and goes on iterating the stream
WorkerStreamFailsContinues(r) ==
  /\ Running(r)
  /\ job[r].pc = "stream"
  /\ job' = [job EXCEPT ![r] = [@ EXCEPT !.sent = Append(@, "error")]]
  /\ toParent' = send(job[r].worker, Msg("error", {r}, FALSE))
  /\ UNCHANGED <<aiProcess, spawned, proc, toWorker, req, issued>>

\* ai-process.ts lines 48, 62-75: the stream threw while it was iterated
WorkerStreamFails(r) ==
  /\ Running(r)
  /\ job[r].pc = "stream"
  /\ job' = [job EXCEPT ![r] =
               [@ EXCEPT !.pc = "finished", !.sent = Append(@, "error")]]
  /\ toParent' = send(job[r].worker, Msg("error", {r}, FALSE))
  /\ UNCHANGED <<aiProcess, spawned, proc, toWorker, req, issued>>

\* the requests whose handler is between its first and its last statement
InFlight(w) ==
  {r \in Requests : job[r].worker = w /\ job[r].pc \in {"call", "stream"}}

\* ai-process.ts lines 82-99: an exception outside the handler's try block:
\* the worker sends an error and exits with code 1
WorkerUncaught(w) ==
  /\ proc[w].state = "running"
  /\ proc[w].booted
  /\ toParent' = send(w, Msg("error", InFlight(w), FALSE))
  /\ job' = [r \in Requests |->
               IF r \in InFlight(w)
                 THEN [job[r] EXCEPT !.sent = Append(@, "error")]
                 ELSE job[r]]
  /\ proc' = [proc EXCEPT ![w] = [@ EXCEPT !.state = "exited", !.code = "1"]]
  /\ UNCHANGED <<aiProcess, spawned, toWorker, req, issued>>

\* fork-ai.ts lines 176-177: the exit code the exit listener is handed is
\* whatever the worker process ended with; a worker whose event loop drains
\* (its channel closed) ends by itself with code 0 and sends nothing
WorkerEnds(w) ==
  /\ proc[w].state = "running"
  /\ proc[w].booted
  /\ proc' = [proc EXCEPT ![w] = [@ EXCEPT !.state = "exited", !.code = "0"]]
  /\ UNCHANGED <<aiProcess, spawned, toParent, toWorker, req, job, issued>>

\* fork-ai.ts lines 105-107: the supervising process exits; its exit hook
\* runs killAiProcess, and nothing of the supervising side runs afterwards
MainExit ==
  /\ mainExited' = TRUE
  /\ proc' = IF reusable
               THEN [proc EXCEPT ![aiProcess] = SIGKILL(@)]
               ELSE proc
  /\ aiProcess' = IF reusable THEN 0 ELSE aiProcess
  /\ UNCHANGED <<spawned, toParent, toWorker, req, job, issued>>

ForkNext ==
  \/ ~mainExited /\ GenerateReuse /\ UNCHANGED <<readVars, histVars, shellVars, mainExited>>
  \/ ~mainExited /\ GenerateFork /\ UNCHANGED <<readVars, histVars, shellVars, mainExited>>
  \/ ~mainExited /\ \E w \in Workers : Deliver(w) /\ UNCHANGED <<readVars, histVars, shellVars, mainExited>>
  \/ ~mainExited /\ \E r \in Requests : Timeout(r) /\ UNCHANGED <<readVars, histVars, shellVars, mainExited>>
  \/ ~mainExited /\ killAiProcess /\ UNCHANGED <<readVars, histVars, shellVars, mainExited>>
  \/ ~mainExited /\ \E w \in Workers : ExitEvent(w) /\ UNCHANGED <<readVars, histVars, shellVars, mainExited>>
  \/ ~mainExited /\ \E r \in Requests : EmitFailure(r) /\ UNCHANGED <<readVars, histVars, shellVars, mainExited>>
  \/ ~mainExited /\ \E r \in Requests : StopKey(r) /\ UNCHANGED <<readVars, histVars, shellVars, mainExited>>
  \/ ~mainExited /\ \E w \in Workers : WorkerBoot(w) /\ UNCHANGED <<readVars, histVars, shellVars, mainExited>>
  \/ ~mainExited /\ \E w \in Workers : WorkerReceive(w) /\ UNCHANGED <<readVars, histVars, shellVars, mainExited>>
  \/ ~mainExited /\ \E r \in Requests : WorkerCallOk(r) /\ UNCHANGED <<readVars, histVars, shellVars, mainExited>>
  \/ ~mainExited /\ \E r \in Requests : WorkerCallFails(r) /\ UNCHANGED <<readVars, histVars, shellVars, mainExited>>
  \/ ~mainExited /\ \E r \in Requests, sentinel \in BOOLEAN :
       WorkerChunk(r, sentinel) /\ UNCHANGED <<readVars, histVars, shellVars, mainExited>>
  \/ ~mainExited /\ \E r \in Requests : WorkerStreamEnd(r) /\ UNCHANGED <<readVars, histVars, shellVars, mainExited>>
  \/ ~mainExited /\ \E r \in Requests : WorkerStreamFails(r) /\ UNCHANGED <<readVars, histVars, shellVars, mainExited>>
  \/ ~mainExited /\ \E w \in Workers : WorkerUncaught(w) /\ UNCHANGED <<readVars, histVars, shellVars, mainExited>>
  \/ ~mainExited /\ \E w \in Workers : WorkerEnds(w) /\ UNCHANGED <<readVars, histVars, shellVars, mainExited>>
  \/ ~mainExited /\ MainExit /\ UNCHANGED <<readVars, histVars, shellVars>>

\* no read of its own: the supervising side and the worker alone
ForkInit == ReadInit /\ sigintListeners = <<>>

SpecFork == ForkInit /\ [][ForkNext]_vars

\* the worker with the requests that reach it: the supervising side forks it,
\* sends generate messages and receives what the worker sends; no read is
\* stopped by a key and no exit event is delivered
WorkerNext ==
  \/ GenerateReuse /\ UNCHANGED <<readVars, histVars, shellVars, mainExited>>
  \/ GenerateFork /\ UNCHANGED <<readVars, histVars, shellVars, mainExited>>
  \/ \E w \in Workers : Deliver(w) /\ UNCHANGED <<readVars, histVars, shellVars, mainExited>>
  \/ killAiProcess /\ UNCHANGED <<readVars, histVars, shellVars, mainExited>>
  \/ \E w \in Workers : WorkerBoot(w) /\ UNCHANGED <<readVars, histVars, shellVars, mainExited>>
  \/ \E w \in Workers : WorkerReceive(w) /\ UNCHANGED <<readVars, histVars, shellVars, mainExited>>
  \/ \E r \in Requests : WorkerCallOk(r) /\ UNCHANGED <<readVars, histVars, shellVars, mainExited>>
  \/ \E r \in Requests : WorkerCallFails(r) /\ UNCHANGED <<readVars, histVars, shellVars, mainExited>>
  \/ \E r \in Requests, sentinel \in BOOLEAN :
       WorkerChunk(r, sentinel) /\ UNCHANGED <<readVars, histVars, shellVars, mainExited>>
  \/ \E r \in Requests : WorkerStreamEnd(r) /\ UNCHANGED <<readVars, histVars, shellVars, mainExited>>
  \/ \E r \in Requests : WorkerStreamFails(r) /\ UNCHANGED <<readVars, histVars, shellVars, mainExited>>
  \/ \E w \in Workers : WorkerUncaught(w) /\ UNCHANGED <<readVars, histVars, shellVars, mainExited>>

SpecWorker == ForkInit /\ [][WorkerNext]_vars

\* ------------------------------------------------------------------
\* command-history.ts lines 1-45: the history buffer

\* the command results a caller may add
Results ==
  {[command |-> "ls", exitCode |-> 0],
   [command |-> "cat", exitCode |-> 1],
   [command |-> "make", exitCode |-> 2]}

\* an insertion at the end of the array
push(h, result) == Append(h, result)

\* line 24: commandHistory.unshift(result)
unshift(h, result) == <<result>> \o h

\* an insertion that never trims
untrimmed(h) == h

\* lines 27-29: if (commandHistory.length > MAX_HISTORY_SIZE) pop()
trimmed(h) ==
  IF Len(h) > MAX_HISTORY_SIZE THEN SubSeq(h, 1, Len(h) - 1) ELSE h

\* lines 22-30: addToCommandHistory(result)
addToCommandHistory(result) ==
  /\ historyOps < MaxHistoryOps
  /\ commandHistory' = trimmed(unshift(commandHistory, result))
  /\ inserted' = Append(inserted, result)
  /\ historyOps' = historyOps + 1

\* lines 36-38: getCommandHistory(): a copy of the array
getCommandHistory == commandHistory

\* lines 43-45: clearCommandHistory()
clearCommandHistory ==
  /\ historyOps < MaxHistoryOps
  /\ commandHistory' = <<>>
  /\ inserted' = <<>>
  /\ historyOps' = historyOps + 1

HistoryNext ==
  \/ \E result \in Results :
       addToCommandHistory(result) /\ UNCHANGED <<readVars, forkVars, shellVars>>
  \/ clearCommandHistory /\ UNCHANGED <<readVars, forkVars, shellVars>>

SpecHistory == ReadInit /\ [][HistoryNext]_vars

\* ------------------------------------------------------------------
\* cli.ts lines 29-48 and part_001 lines 182-234: the session loop

\* generation requests one session may make
MaxSubmissions == 4

\* the prompts a user may give, on the command line or when asked
Prompts == {"list js files", "say hello"}

sessionVars == <<sessionPc, promptText, thePrompt, submitted, reported>>
formatVars == <<stdout, trimmedStdout>>

\* a generation request for prompt p is made; typed says that the user
\* entered p for this request
Request(p, typed) == [prompt |-> p, typed |-> typed, failed |-> FALSE]

\* cli.ts lines 30-36: let promptText = argv._.join(' '); the loop is entered
cli(text) ==
  /\ sessionPc = "start"
  /\ promptText' = text
  /\ sessionPc' = "top"
  /\ UNCHANGED <<thePrompt, submitted, reported>>

\* cli.ts line 38, part_001 lines 186-207: prompt({usePrompt: promptText})
\* with a non-empty promptText: thePrompt = usePrompt, and the request is
\* made with it
promptGiven ==
  /\ sessionPc = "top"
  /\ promptText # ""
  /\ Len(submitted) < MaxSubmissions
  /\ thePrompt' = promptText
  /\ submitted' = Append(submitted, Request(promptText, FALSE))
  /\ sessionPc' = "generating"
  /\ UNCHANGED <<promptText, reported>>

\* cli.ts line 38, part_001 line 197: prompt({usePrompt: ''}): the empty
\* string is falsy and getPrompt() asks the user
promptAsks ==
  /\ sessionPc = "top"
  /\ promptText = ""
  /\ Len(submitted) < MaxSubmissions
  /\ sessionPc' = "input"
  /\ UNCHANGED <<promptText, thePrompt, submitted, reported>>

\* part_001 lines 135-158, 197-207: the user enters p and the request is made
getPrompt(p) ==
  /\ sessionPc = "input"
  /\ thePrompt' = p
  /\ submitted' = Append(submitted, Request(p, TRUE))
  /\ sessionPc' = "generating"
  /\ UNCHANGED <<promptText, reported>>

\* part_001 lines 151-154: onCancel: process.exit(0)
onCancel ==
  /\ sessionPc = "input"
  /\ sessionPc' = "exited"
  /\ UNCHANGED <<promptText, thePrompt, submitted, reported>>

\* command-history.ts lines 193-243, cli.ts lines 41-45: generateCompletion
\* throws, prompt rejects at line 201 and the catch block of the loop reports
\* the error; line 40 was not reached and the loop goes on
generationFails ==
  /\ sessionPc = "generating"
  /\ submitted' = [submitted EXCEPT ![Len(submitted)].failed = TRUE]
  /\ reported' = reported + 1
  /\ sessionPc' = "top"
  /\ UNCHANGED <<promptText, thePrompt>>

\* part_001 lines 201-233: the request succeeded; the script is read and
\* runOrReviseFlow is entered
generationReturns ==
  /\ sessionPc = "generating"
  /\ sessionPc' = "flow"
  /\ UNCHANGED <<promptText, thePrompt, submitted, reported>>

\* part_001 lines 233-234, cli.ts line 40: prompt returns; promptText = ''
promptReturns ==
  /\ sessionPc = "flow"
  /\ promptText' = ""
  /\ sessionPc' = "top"
  /\ UNCHANGED <<thePrompt, submitted, reported>>

\* part_001 lines 291-296: the Cancel option: process.exit(0)
flowCancel ==
  /\ sessionPc = "flow"
  /\ sessionPc' = "exited"
  /\ UNCHANGED <<promptText, thePrompt, submitted, reported>>

SessionNext ==
  \/ \E text \in Prompts \cup {""} :
       cli(text) /\ UNCHANGED <<readVars, forkVars, histVars, formatVars, runVars>>
  \/ promptGiven /\ UNCHANGED <<readVars, forkVars, histVars, formatVars, runVars>>
  \/ promptAsks /\ UNCHANGED <<readVars, forkVars, histVars, formatVars, runVars>>
  \/ \E p \in Prompts :
       getPrompt(p) /\ UNCHANGED <<readVars, forkVars, histVars, formatVars, runVars>>
  \/ onCancel /\ UNCHANGED <<readVars, forkVars, histVars, formatVars, runVars>>
  \/ generationFails /\ UNCHANGED <<readVars, forkVars, histVars, formatVars, runVars>>
  \/ generationReturns /\ UNCHANGED <<readVars, forkVars, histVars, formatVars, runVars>>
  \/ promptReturns /\ UNCHANGED <<readVars, forkVars, histVars, formatVars, runVars>>
  \/ flowCancel /\ UNCHANGED <<readVars, forkVars, histVars, formatVars, runVars>>

SpecSession == ReadInit /\ [][SessionNext]_vars

\* ------------------------------------------------------------------
\* command-history.ts lines 50-102: the history formatted for the model

\* the longest captured output, in lines
MaxLines == 60

\* the line budget formatCommandHistoryForAI passes: trimOutput(.., 15)
LINE_BUDGET == 15

\* the i-th line of a captured output
Line(i) == [kind |-> "line", n |-> i]
\* `... (${k} more lines) ...`
Elision(k) == [kind |-> "elision", n |-> k]

\* a captured output of n lines: output.split('\n')
Lines(n) == [i \in 1..n |-> Line(i)]

\* lines.slice(0, k)
sliceFirst(lines, k) ==
  SubSeq(lines, 1, IF k < Len(lines) THEN k ELSE Len(lines))

\* lines.slice(-k); slice(-0) is slice(0), the whole array
sliceLast(lines, k) ==
  IF k = 0 \/ k >= Len(lines) THEN lines
  ELSE SubSeq(lines, Len(lines) - k + 1, Len(lines))

\* lines 90-102: trimOutput(output, maxLines), on the lines of the output
trimOutput(lines, maxLines) ==
  IF Len(lines) <= maxLines THEN lines
  ELSE LET halfMax == maxLines \div 2
           firstHalf == sliceFirst(lines, halfMax)
           secondHalf == sliceLast(lines, halfMax)
       IN  firstHalf \o <<Elision(Len(lines) - maxLines)>> \o secondHalf

\* a command ended and left n lines of output (split never returns an empty
\* array: the empty output is one empty line)
Capture(n) ==
  /\ stdout' = Lines(n)
  /\ trimmedStdout' = Unset

\* lines 66-69: const trimmedStdout = trimOutput(result.stdout, 15)
FormatOutput ==
  /\ stdout # <<>>
  /\ trimmedStdout' = At(trimOutput(stdout, LINE_BUDGET))
  /\ UNCHANGED stdout

FormatNext ==
  \/ \E n \in 1..MaxLines :
       Capture(n) /\ UNCHANGED <<readVars, forkVars, histVars, sessionVars, runVars>>
  \/ FormatOutput /\ UNCHANGED <<readVars, forkVars, histVars, sessionVars, runVars>>

SpecFormat == ReadInit /\ [][FormatNext]_vars

\* ------------------------------------------------------------------
\* part_001 lines 45-133: runScript and analyzeFailedCommand

\* calls of runScript in one run
MaxRuns == 6

\* the scripts the user may run and the exit codes they may end with
Scripts == {"ls", "make"}
ExitCodes == {0, 1, 2}

\* command-history.ts lines 50-83: formatCommandHistoryForAI(): one block
\* per entry, in the order of the array, numbered from the length down
\* (text is 'No command history available.' for the empty array)
formatCommandHistoryForAI(h) ==
  [text |-> IF Len(h) = 0 THEN "No command history available." ELSE "",
   blocks |-> [i \in 1..Len(h) |->
                 [number |-> Len(h) + 1 - i,
                  command |-> h[i].command,
                  exitCode |-> h[i].exitCode]]]

\* lines 45-51: runScript(script, key, ..., apiEndpoint, ...) up to
\* `await execaCommand(script, ...)`
runScript(s, creds) ==
  /\ runPc = "idle"
  /\ runs < MaxRuns
  /\ runs' = runs + 1
  /\ script' = s
  /\ credentials' = creds
  /\ analysisHistory' = NotFormatted
  /\ runPc' = "executing"
  /\ UNCHANGED <<executed, histVars>>

\* a runScript that starts the analysis before it stores the result
execaReturnsAnalysisFirst(code) ==
  LET commandResult == [command |-> script, exitCode |-> code]
      analyze == code # 0 /\ credentials
  IN  /\ runPc = "executing"
      /\ executed' = Append(executed, commandResult)
      /\ analysisHistory' =
           IF analyze THEN At(formatCommandHistoryForAI(commandHistory))
                     ELSE analysisHistory
      /\ addToCommandHistory(commandResult)
      /\ runPc' = IF analyze THEN "analyzing" ELSE "idle"
      /\ UNCHANGED <<script, credentials, runs>>

\* lines 51-89, 100-115: execaCommand returned (reject: false: whatever the
\* exit code); the result is stored with addToCommandHistory, and when the
\* command failed and credentials are present analyzeFailedCommand is called,
\* which runs up to its first await in the same turn: line 114 formats the
\* history
execaReturns(code) ==
  LET commandResult == [command |-> script, exitCode |-> code]
      analyze == code # 0 /\ credentials
  IN  /\ runPc = "executing"
      /\ executed' = Append(executed, commandResult)
      /\ addToCommandHistory(commandResult)
      /\ analysisHistory' =
           IF analyze THEN At(formatCommandHistoryForAI(commandHistory'))
                     ELSE analysisHistory
      /\ runPc' = IF analyze THEN "analyzing" ELSE "idle"
      /\ UNCHANGED <<script, credentials, runs>>

\* lines 90-94: execaCommand threw: the command could not be run; the catch
\* block reports it and runScript returns 1
execaThrows ==
  /\ runPc = "executing"
  /\ runPc' = "idle"
  /\ UNCHANGED <<script, credentials, executed, analysisHistory, runs,
                 histVars>>

\* lines 115-133, 89: the analysis was read, or failed and was reported;
\* runScript returns the exit code
analysisEnds ==
  /\ runPc = "analyzing"
  /\ runPc' = "idle"
  /\ UNCHANGED <<script, credentials, executed, analysisHistory, runs,
                 histVars>>

RunNext ==
  \/ \E s \in Scripts, creds \in BOOLEAN :
       runScript(s, creds)
         /\ UNCHANGED <<readVars, forkVars, formatVars, sessionVars>>
  \/ \E code \in ExitCodes :
       execaReturns(code)
         /\ UNCHANGED <<readVars, forkVars, formatVars, sessionVars>>
  \/ execaThrows /\ UNCHANGED <<readVars, forkVars, formatVars, sessionVars>>
  \/ analysisEnds /\ UNCHANGED <<readVars, forkVars, formatVars, sessionVars>>

SpecRun == ReadInit /\ [][RunNext]_vars

\* ------------------------------------------------------------------
\* properties of readData

Registered(h) == \E i \in 1..Len(sigintListeners) : sigintListeners[i] = h
TimesRegistered(h) ==
  Cardinality({i \in 1..Len(sigintListeners) : sigintListeners[i] = h})
\* the executor of the promise has ended, by return or by throw
ReadEnded == pc \in {"returned", "threw"}
\* the handler the read saved before taking over SIGINT, if there was one
PriorHandler == sigintBefore[Len(sigintBefore)]
\* decoded text (not a notice of the reader) was passed to the writer
ContentWritten ==
  \E i \in 1..Len(written) : written[i] \notin {STOPPED, COMPLETE}

\* C1: on every termination path of a read (sentinel, stream exhausted,
\* keypress stop, interrupt in analysis mode, error raised by the stream or
\* by the writer) the promise returned by the read is settled once the read
\* has ended.
C1_PromiseSettledWhenReadEnded ==
  ReadEnded => promise.state # "pending"

\* C2: in analysis mode, once an interrupt has resolved the read, the
\* analysis handler is no longer registered and the handler registered
\* before the read is, so that the next interrupt invokes the prior handler.
C2_InterruptRestoresPriorHandler ==
  (isAnalysis /\ dataAtInt.set /\ promise.state = "resolved" /\ pc # "exited")
    => /\ ~Registered(ANALYSIS)
       /\ sigintBefore # <<>> => Registered(PriorHandler)

\* C3: when an analysis-mode read has ended, on any exit path (completion,
\* stop, error while iterating the stream), the analysis handler is not
\* registered and the prior handler is registered exactly once.
C3_HandlerRestoredOnEveryExit ==
  (isAnalysis /\ ReadEnded)
    => /\ ~Registered(ANALYSIS)
       /\ sigintBefore # <<>> => TimesRegistered(PriorHandler) = 1

\* C4: no decoded text is passed to the writer or appended to the
\* accumulated output before the first exclusion pattern has matched the
\* fragments parsed so far; with no pattern configured the first non-empty
\* fragment is emitted.
C4_NoEmissionBeforeStart ==
  /\ (data # <<>> \/ ContentWritten) => matchSeen.hit
  /\ (excluded = <<>> /\ parsedNonEmpty) => data # <<>>

\* C4 witness: with the code-fence patterns configured, the look-behind
\* buffer grew over a fragment that did not match, then matched, and text was
\* emitted afterwards
C4_Witness ==
  /\ excluded = shellCodeExclusions
  /\ matchSeen.hit
  /\ Len(matchSeen.text) > 4
  /\ data # <<>>
  /\ ContentWritten

\* C5: after emission has started, no configured exclusion pattern occurs in
\* the accumulated output, for any sequence of fragments.
C5_NoPatternInOutput ==
  \A i \in 1..Len(excluded) : ~Occurs(excluded[i], data)

\* C6: after a stop key, the read resolves (the stop path does not leave the
\* promise pending) and the resolved text is the text accumulated when the
\* key set the flag: no later payload contributes.
C6_StopKeepsAccumulatedText ==
  /\ (dataAtStop.set /\ promise.state = "resolved")
       => promise.value = dataAtStop.value
  /\ exitPath = "stop" => promise.state = "resolved"

\* C6 witness: a normal-mode read with text accumulated, stopped by a key,
\* ended at the payload that followed the key
C6_Witness ==
  /\ ~isAnalysis
  /\ exitPath = "stop"
  /\ dataAtStop.set
  /\ dataAtStop.value # <<>>
  /\ promise = [state |-> "resolved", value |-> dataAtStop.value]

Terminal(t) == t \in {"done", "error"}

\* C8: for every generate request the worker received, what the worker sent
\* for it is a run of chunk messages followed by at most one terminal message
\* (done or error), no chunk follows the terminal message, and once the
\* handler of the request has finished exactly one terminal message was sent.
C8_ChunksThenOneTerminal ==
  \A r \in Requests :
    LET s == job[r].sent
    IN  /\ \A i \in 1..Len(s) : Terminal(s[i]) => i = Len(s)
        /\ job[r].pc = "finished" => (s # <<>> /\ Terminal(s[Len(s)]))

\* two requests served to the end, one closed by done and one by error, each
\* after a chunk
C8_Witness ==
  \E r1, r2 \in Requests :
    /\ job[r1].pc = "finished" /\ job[r1].sent = <<"chunk", "done">>
    /\ job[r2].pc = "finished" /\ job[r2].sent = <<"chunk", "error">>

\* C9: after the worker was forcibly killed, the next generate request forks
\* a fresh worker and, when that worker reports ready, holds a handle to it and
\* has sent it the request, however the exit event of the killed worker is
\* interleaved with the respawn.
C9_RespawnObtainsFreshWorker ==
  \A r \in Requests :
    LET w == req[r].forked
    IN  (/\ w > 1
         /\ proc[w - 1].killed /\ proc[w - 1].code = "null"
         /\ proc[w].state = "running" /\ ~proc[w].killed
         /\ req[r].readySeen)
          => (req[r].st = "sent" /\ req[r].proc = w)

\* the requests sent to worker w whose terminal message has not been received
Outstanding(w) ==
  {r \in Requests : req[r].st = "sent" /\ req[r].proc = w /\ ~req[r].termRecv}

\* C10: at most one generate request is outstanding against a running worker:
\* no second generate is sent before the terminal message of the previous
\* request has been received, also when the previous read ended early.
C10_OneRequestOutstanding ==
  \A w \in Workers :
    proc[w].state = "running" => Cardinality(Outstanding(w)) <= 1

\* the worker has sent the terminal message of request r
TerminalSent(r) == \E i \in 1..Len(job[r].sent) : Terminal(job[r].sent[i])

\* the response of request r has emitted an error
ErrorEmitted(r) == \E i \in 1..Len(req[r].events) : req[r].events[i] = "error"

\* C11: when the exit of the worker has been observed and the worker had not
\* sent the terminal message of a request that was sent to it, the response
\* of that request has emitted an error, whatever the exit code was.
C11_ExitReachesWaitingCaller ==
  \A r \in Requests :
    (/\ req[r].st = "sent"
     /\ proc[req[r].proc].exitSeen
     /\ ~TerminalSent(r))
      => ErrorEmitted(r)

\* C12: a request whose startup timeout fired has failed and the worker that
\* was forked for it has been terminated; and a request is handed only a
\* worker that has signalled ready.
C12_TimeoutKillsUnreadyWorker ==
  \A r \in Requests :
    /\ req[r].timedOut =>
         (req[r].st = "failed" /\ proc[req[r].forked].state = "exited")
    /\ req[r].st = "sent" => proc[req[r].proc].booted

\* the handler of request r ends in this step by reporting a failure
HandlerFails(r) ==
  /\ job[r].pc \in {"call", "stream"}
  /\ job'[r].pc = "finished"
  /\ job'[r].sent = Append(job[r].sent, "error")

\* C13: a step in which the handler of a request ends on a failure of the
\* network call or of the stream iteration sends exactly one error message,
\* which carries message, name, code and stack, and leaves the worker process
\* as it was: running, with its listener registered.
C13_FailureRelayedWorkerAlive ==
  [][\A r \in Requests :
       HandlerFails(r) =>
         LET w == job[r].worker
         IN  /\ Len(toParent'[w]) = Len(toParent[w]) + 1
             /\ toParent'[w][Len(toParent'[w])].type = "error"
             /\ toParent'[w][Len(toParent'[w])].error =
                  {"message", "name", "code", "stack"}
             /\ proc' = proc
             /\ proc'[w].state = "running" /\ proc'[w].booted]_vars

\* a request failed in the call, its error reached the caller, and the next
\* request was served to the end by the same worker
C13_Witness ==
  \E r1, r2 \in Requests :
    /\ job[r1].pc = "finished" /\ job[r1].sent = <<"error">>
    /\ req[r1].events = <<"error">>
    /\ r2 > r1
    /\ job[r2].worker = job[r1].worker
    /\ job[r2].pc = "finished" /\ job[r2].sent = <<"chunk", "done">>

\* no worker has exited and none was sent a kill signal
NoWorkerLost ==
  \A w \in Workers : proc[w].state # "exited" /\ ~proc[w].killed

C15_NoWorkerOutlivesMain ==
  mainExited => \A w \in Workers : proc[w].state # "running"

\* the event e ends a response
TerminalEvent(e) == e \in {"end", "error"}

\* C23: the events a response object has received are data events followed
\* by at most one terminal event (end or error): nothing, of any kind,
\* follows the terminal event, also when the worker exits or is killed later.
C23_NoEventAfterTerminal ==
  \A r \in Requests :
    \A i \in 1..Len(req[r].events) :
      TerminalEvent(req[r].events[i]) => i = Len(req[r].events)

\* the workers whose process is alive
Alive == {w \in Workers : proc[w].state = "running"}

\* C28: the module-scoped handle is empty or refers to the most recently
\* forked worker, whose exit has not been observed; at most one worker
\* process is alive; and the handle of the most recently forked worker, while
\* that worker runs and was not killed, is not cleared by the exit event of a
\* worker forked before it.
C28_HandleIsLatestLiveWorker ==
  /\ aiProcess # 0 => (aiProcess = spawned /\ ~proc[aiProcess].exitSeen)
  /\ Cardinality(Alive) <= 1
  /\ (spawned > 0 /\ proc[spawned].state = "running" /\ ~proc[spawned].killed)
       => aiProcess = spawned

\* ------------------------------------------------------------------
\* properties of the history buffer

\* C16: the buffer never holds more than MAX_HISTORY_SIZE (5) entries, and
\* an insertion into a full buffer puts the new entry first, keeps the
\* entries before the last in their order and drops exactly the last one,
\* which is the least recently inserted.
C16_BoundedEvictsOldest ==
  /\ [](Len(commandHistory) <= 5)
  /\ [][(Len(inserted') = Len(inserted) + 1 /\ Len(commandHistory) = 5)
          => /\ Len(commandHistory') = 5
             /\ commandHistory'[1] = inserted'[Len(inserted')]
             /\ \A i \in 1..4 : commandHistory'[i + 1] = commandHistory[i]
             /\ commandHistory[5] = inserted[Len(inserted) - 4]]_vars

\* after a clear, six insertions: the sixth found the buffer full and
\* evicted the first, which differs from the entry that is now the oldest
C16_Witness ==
  /\ historyOps > Len(inserted)
  /\ Len(inserted) = 6
  /\ Len(commandHistory) = 5
  /\ commandHistory[5] = inserted[2]
  /\ inserted[1] # inserted[2]

\* the last n entries of s, most recent first
LastFirst(s, n) == [i \in 1..n |-> s[Len(s) + 1 - i]]

\* C17: after more insertions than the capacity into an empty buffer, the
\* buffer read by getCommandHistory has the capacity as its length and holds
\* exactly the last `capacity` inserted entries, most recent first.
C17_LastCapacityMostRecentFirst ==
  Len(inserted) > MAX_HISTORY_SIZE =>
    /\ Len(getCommandHistory) = MAX_HISTORY_SIZE
    /\ getCommandHistory = LastFirst(inserted, MAX_HISTORY_SIZE)

\* seven entries inserted, the first two evicted, the entries not all alike
C17_Witness ==
  /\ Len(inserted) = MAX_HISTORY_SIZE + 2
  /\ inserted[1] # inserted[6]
  /\ inserted[6] # inserted[7]
  /\ commandHistory = LastFirst(inserted, MAX_HISTORY_SIZE)

\* ------------------------------------------------------------------
\* properties of the decoded output

\* the read ended on the sentinel and no interrupt settled it before
EndedOnSentinel == exitPath = "sentinel" /\ ~dataAtInt.set

\* C18: with no exclusion pattern and only well-formed payloads, the
\* accumulated text is at every moment the concatenation, in arrival order,
\* of the fragments of the data payloads decoded so far (emission starts with
\* the first one), and a read that ends on the sentinel resolves with it.
C18_NoExclusionConcatenation ==
  (excluded = <<>> /\ ~matchSeen.bad) =>
    /\ data = matchSeen.after
    /\ EndedOnSentinel =>
         promise = [state |-> "resolved", value |-> matchSeen.after]

\* two fragments, then the sentinel: the text returned is longer than any
\* single fragment
C18_Witness ==
  /\ excluded = <<>>
  /\ ~matchSeen.bad
  /\ EndedOnSentinel
  /\ promise.state = "resolved"
  /\ Len(promise.value) > 4

\* C19: with the code-fence patterns configured and the fence marker in the
\* first data payload, a read of well-formed payloads that ends on the
\* sentinel resolves with the stripped fragments of every data payload that
\* followed the fence payload, whether or not they shared its chunk.
C19_EveryFrameAfterFence ==
  (/\ excluded = shellCodeExclusions
   /\ matchSeen.hit /\ matchSeen.frames = 1
   /\ ~matchSeen.bad
   /\ EndedOnSentinel)
    => promise = [state |-> "resolved", value |-> matchSeen.after]

\* C20: when a data payload failed to parse and every payload was looked at,
\* the accumulated text is what the well-formed payloads alone are due to
\* add: the payload that failed added nothing.
C20_ParseFailureAddsNothing ==
  (matchSeen.bad /\ ~matchSeen.skipped) => data = matchSeen.after

\* ------------------------------------------------------------------
\* properties of the listeners and of the cancellation paths of a read

\* C24: no key-press listener is registered before the first read, and when
\* a read has ended the number of key-press listeners on standard input is
\* again what it was before that read: none, after any number of reads.
C24_KeypressListenerTransient ==
  ReadEnded => keypressListeners = 0

\* C25: one cancellation path per read: a read in analysis mode that ended
\* on a stop request was stopped by the interrupt signal and no stop key set
\* its flag; a read in normal mode that ended on a stop request was stopped
\* by a stop key, and its own interrupt handler never ran.
C25_OneCancellationPath ==
  /\ isAnalysis => (~dataAtStop.set /\ (exitPath = "stop" => dataAtInt.set))
  /\ ~isAnalysis => (~dataAtInt.set /\ (exitPath = "stop" => dataAtStop.set))

\* the decoded text passed to the writer, without the notices of the reader
ContentOf(w) == SelectSeq(w, LAMBDA x : x \notin {STOPPED, COMPLETE})

\* the read ended at a sentinel payload or at an observed stop request
EndedOnStop == exitPath \in {"sentinel", "stop"}

\* C26: when a sentinel payload was processed or a stop request was
\* observed, the executor has returned and the promise is resolved with the
\* text accumulated so far; and from then on the read consumes no payload:
\* nothing more is decoded, accumulated or written as decoded text, whether
\* payloads remain in the chunk or in later chunks.
C26_StopEndsReadAtOnce ==
  /\ [](EndedOnStop =>
          /\ pc \in {"returned", "exited"}
          /\ promise = [state |-> "resolved", value |-> data])
  /\ [][(EndedOnStop /\ reads' = reads) =>
          /\ data' = data
          /\ matchSeen' = matchSeen
          /\ payloadsLeft' = payloadsLeft
          /\ ContentOf(written') = ContentOf(written)]_vars

\* a read that accumulated text ended on the sentinel while the stream had
\* more payloads to give
C26_Witness ==
  /\ exitPath = "sentinel"
  /\ pc = "returned"
  /\ data # <<>>
  /\ payloadsLeft > 0
  /\ promise = [state |-> "resolved", value |-> data]

\* ------------------------------------------------------------------
\* properties of runScript

\* the result of the command the current call of runScript executed
LastExecuted == executed[Len(executed)]

\* C27: every command runScript executed is in the history buffer exactly
\* once, in the order of execution and whatever its exit code; the failure
\* analysis runs only for a command that ended with a non-zero exit code
\* with credentials present, and the history it was given has that command
\* as its first (most recent) entry.
C27_StoredBeforeAnalysis ==
  /\ inserted = executed
  /\ runPc = "analyzing" =>
       /\ credentials
       /\ LastExecuted.command = script
       /\ LastExecuted.exitCode # 0
       /\ analysisHistory.set
       /\ analysisHistory.value.text = ""
       /\ Len(analysisHistory.value.blocks) > 0
       /\ analysisHistory.value.blocks[1].command = script
       /\ analysisHistory.value.blocks[1].exitCode = LastExecuted.exitCode
       /\ analysisHistory.value.blocks[1].number = Len(commandHistory)
  /\ (runPc = "idle" /\ executed # <<>> /\ LastExecuted.exitCode = 0)
       => ~analysisHistory.set

\* a command that succeeded and then another that failed, both stored; the
\* analysis of the second was given both, the failed one first
C27_Witness ==
  /\ runPc = "analyzing"
  /\ Len(executed) = 2
  /\ executed[1].exitCode = 0
  /\ executed[1].command # script
  /\ commandHistory = <<executed[2], executed[1]>>
  /\ Len(analysisHistory.value.blocks) = 2
  /\ analysisHistory.value.blocks[1].command = script

\* C29: in normal mode, at every point of the read the concatenation of
\* the strings passed to the writer equals the accumulated text, and a read
\* that resolved returned exactly what was written.
C29_WrittenEqualsAccumulated ==
  ~isAnalysis =>
    /\ written = data
    /\ promise.state = "resolved" => promise.value = written

\* a normal-mode read with the code-fence patterns: a fragment that lost a
\* newline to the patterns was written and accumulated, and the read
\* returned on the sentinel
C29_Witness ==
  /\ ~isAnalysis
  /\ excluded = shellCodeExclusions
  /\ exitPath = "sentinel"
  /\ promise.state = "resolved"
  /\ promise.value = written
  /\ Len(written) >= 3

\* C30: once the promise of a read has settled, no step of that read
\* passes anything to the writer, on any termination path.
C30_NoWriteAfterSettle ==
  [][(promise.state # "pending" /\ reads' = reads) => written' = written]_vars

\* C31: when an analysis-mode read has completed, the interrupt handlers
\* registered are those registered before the read, in the same order,
\* whether there were none, one or several.
C31_InterruptHandlersRestored ==
  (isAnalysis /\ pc = "returned") => sigintListeners = sigintBefore

\* ------------------------------------------------------------------
\* properties of the formatted history

\* the lines of `original` that do not occur in `kept`
LeftOut(original, kept) ==
  {i \in 1..Len(original) :
     \A j \in 1..Len(kept) : kept[j] # original[i]}

\* C21: an output of more than 15 lines is formatted as k leading lines of
\* the original, an elision marker and the k trailing lines of the original,
\* for a fixed k, and the number in the marker is the number of original
\* lines left out; an output of at most 15 lines is kept unchanged.
C21_ElisionCountsOmittedLines ==
  trimmedStdout.set =>
    LET t == trimmedStdout.value
        n == Len(stdout)
        k == LINE_BUDGET \div 2
    IN  IF n <= LINE_BUDGET THEN t = stdout
        ELSE /\ Len(t) = 2 * k + 1
             /\ SubSeq(t, 1, k) = SubSeq(stdout, 1, k)
             /\ SubSeq(t, k + 2, 2 * k + 1) = SubSeq(stdout, n - k + 1, n)
             /\ t[k + 1].kind = "elision"
             /\ t[k + 1].n = Cardinality(LeftOut(stdout, t))

\* ------------------------------------------------------------------
\* properties of the session loop

\* C22: a generation request that failed is reported, and the request made
\* after it carries a prompt the user entered for it: the loop does not
\* submit the prompt of the failed request again by itself.
C22_FailedPromptNotReissued ==
  /\ reported = Cardinality({i \in 1..Len(submitted) : submitted[i].failed})
  /\ \A i \in 1..Len(submitted) :
       (submitted[i].failed /\ i < Len(submitted)) => submitted[i + 1].typed

====
